---------------------------- MODULE Spec2Model ----------------------------
(***************************************************************************)
(* Model of the mental-math practice service: the question generator       *)
(* (services/QuestionGenerator), the practice-session document             *)
(* (models/PracticeSession), the user statistics (models/User) and the     *)
(* practice controller's handlers (controllers/practiceController).        *)
(*                                                                         *)
(* Number representation.  JavaScript numbers are modelled exactly as      *)
(* rationals:                                                              *)
(*   - a difficulty is an integer count of hundredths (1.0 is 100);        *)
(*   - an answer is an integer count of hundredths (3 is 300, 2.75 is 275);*)
(*   - accuracies and mean response times are fractions [num, den];        *)
(*   - times are milliseconds, durations seconds.                          *)
(* Math.random() is a draw k/RandDen with k in 0..RandDen-1.               *)
(***************************************************************************)
EXTENDS Integers, Sequences, FiniteSets, TLC

VARIABLES
    sessionExists,   \* a PracticeSession document has been created
    sessionType,     \* session.sessionType
    settings,        \* session.settings
    startTime,       \* session.startTime (ms)
    endTime,         \* session.endTime (ms), NoTime while unset
    duration,        \* session.duration (s)
    isCompleted,     \* session.isCompleted
    questions,       \* session.questions
    performance,     \* session.performance
    stats,           \* user.stats
    now,             \* the wall clock (ms)
    issued,          \* the question the last response handed to the client
    lastCall,        \* the last operation called and how it ended
    statUpdates,     \* number of updateStats calls made for the session
    config,          \* input of generateQuestion / validateAnswer
    draws,           \* the outcomes of the Math.random() calls of one generation
    generated,       \* the question the generator returned
    validation,      \* the last validateAnswer call on that question and its result
    args,            \* the arguments of the last call of a function checked on its own
    result,          \* what that call returned
    requests         \* the handler calls in progress: position and local copies

vars == << sessionExists, sessionType, settings, startTime, endTime, duration,
           isCompleted, questions, performance, stats, now, issued, lastCall,
           statUpdates, config, draws, generated, validation, args, result,
           requests >>

sessionVars == << sessionExists, sessionType, settings, startTime, endTime,
                  duration, isCompleted, questions, performance, stats, now,
                  issued, lastCall, statUpdates >>

genVars == << config, draws, generated, validation, args, result, requests >>

(***************************************************************************)
(* Bounds                                                                  *)
(***************************************************************************)
RandDen == 5          \* Math.random() takes the values 0/RandDen .. (RandDen-1)/RandDen
MaxQuestions == 2     \* recorded answers per session under Spec
MaxAPIQuestions == 4
MaxEchoQuestions == 4  \* answers per session in SpecEcho: the adaptive branch needs 3
MaxUpdates == 6        \* updateStats calls in SpecUser: enough for a streak above 5  \* stored questions per session under SpecAPI

(***************************************************************************)
(* Arithmetic helpers                                                      *)
(***************************************************************************)
Min(a, b) == IF a <= b THEN a ELSE b
Max(a, b) == IF a >= b THEN a ELSE b
Abs(a) == IF a < 0 THEN -a ELSE a

\* A rational number num/den with den > 0.
Frac(n, d) == [num |-> n, den |-> d]
FracGE(f, k) == f.num >= k * f.den
FracLT(f, k) == f.num < k * f.den
FracGT(f, k) == f.num > k * f.den

Operations == {"addition", "subtraction", "multiplication", "division"}

(***************************************************************************)
(* QuestionGenerator                                                       *)
(***************************************************************************)
Range(lo, hi, dp, neg) == [min |-> lo, max |-> hi, decimalPlaces |-> dp, allowNegatives |-> neg]

difficultyRanges ==
    [op \in Operations |->
        CASE op = "addition" ->
             << Range(1, 9, 0, FALSE), Range(1, 19, 0, FALSE), Range(1, 50, 0, FALSE),
                Range(1, 99, 0, FALSE), Range(10, 199, 0, FALSE), Range(50, 499, 0, FALSE),
                Range(100, 999, 0, FALSE), Range(500, 1999, 0, FALSE),
                Range(1000, 4999, 0, FALSE), Range(2000, 9999, 0, FALSE) >>
          [] op = "subtraction" ->
             << Range(1, 9, 0, FALSE), Range(1, 19, 0, FALSE), Range(1, 50, 0, FALSE),
                Range(1, 99, 0, FALSE), Range(10, 199, 0, FALSE), Range(50, 499, 0, TRUE),
                Range(100, 999, 0, TRUE), Range(500, 1999, 0, TRUE),
                Range(1000, 4999, 0, TRUE), Range(2000, 9999, 0, TRUE) >>
          [] op = "multiplication" ->
             << Range(1, 5, 0, FALSE), Range(1, 9, 0, FALSE), Range(1, 12, 0, FALSE),
                Range(1, 15, 0, FALSE), Range(1, 25, 0, FALSE), Range(10, 99, 0, FALSE),
                Range(10, 199, 0, FALSE), Range(50, 499, 0, FALSE),
                Range(100, 999, 0, FALSE), Range(500, 1999, 0, FALSE) >>
          [] op = "division" ->
             << Range(1, 25, 0, FALSE), Range(1, 81, 0, FALSE), Range(1, 144, 0, FALSE),
                Range(1, 225, 0, FALSE), Range(1, 400, 0, FALSE), Range(25, 2500, 0, FALSE),
                Range(100, 10000, 0, FALSE), Range(500, 50000, 0, FALSE),
                Range(1000, 100000, 0, FALSE), Range(5000, 500000, 2, FALSE) >>]

\* index = max(0, min(ranges.length - 1, floor(difficulty) - 1)); sequences are 1-based here.
getDifficultyRange(operation, difficulty) ==
    LET ranges == difficultyRanges[operation]
        index == Max(0, Min(Len(ranges) - 1, (difficulty \div 100) - 1))
    IN  ranges[index + 1]

\* floor(Math.random() * (max - min + 1)) + min, with Math.random() = k/RandDen.
\* max is passed in halves (max2 = 2*max) because one caller passes num1 * 0.5.
getRandomInRange(min, max2, k) ==
    ((k * (max2 - 2 * min + 2)) \div (2 * RandDen)) + min

\* Math.random() > p/10
RandomAbove(k, p) == 10 * k > p * RandDen

\* Math.round(x * 10) / 10 on hundredths (Math.round rounds half up).
RoundToTenth(x) == ((x + 5) \div 10) * 10

NoPerformance == [present |-> FALSE]

\* Mutant of adjustDifficultyBasedOnPerformance: the speed bonus is given for
\* accuracy below 85 instead of from 85 on.
adjustDifficulty_SpeedBonusFlipped(baseDifficulty, perf) ==
    IF ~perf.present THEN baseDifficulty
    ELSE
      LET accuracy == perf.accuracy
          averageTime == perf.averageTime
          recentTotal == perf.recentTotal
          byAccuracy ==
              IF FracGE(accuracy, 90) /\ recentTotal >= 5 THEN 30
              ELSE IF FracGE(accuracy, 80) /\ recentTotal >= 5 THEN 10
              ELSE IF FracLT(accuracy, 60) /\ recentTotal >= 3 THEN -20
              ELSE IF FracLT(accuracy, 40) /\ recentTotal >= 3 THEN -40
              ELSE 0
          bySpeed ==
              IF FracLT(averageTime, 2000) /\ FracLT(accuracy, 85) THEN 20
              ELSE IF FracGT(averageTime, 10000) THEN -10
              ELSE 0
          adjustment == byAccuracy + bySpeed
          adjustedDifficulty == Max(100, Min(1000, baseDifficulty + adjustment))
      IN  RoundToTenth(adjustedDifficulty)

\* Mutant of adjustDifficultyBasedOnPerformance: the adjusted difficulty is
\* rounded but not clamped to [1, 10].
adjustDifficulty_NoClamp(baseDifficulty, perf) ==
    IF ~perf.present THEN baseDifficulty
    ELSE
      LET accuracy == perf.accuracy
          averageTime == perf.averageTime
          recentTotal == perf.recentTotal
          byAccuracy ==
              IF FracGE(accuracy, 90) /\ recentTotal >= 5 THEN 30
              ELSE IF FracGE(accuracy, 80) /\ recentTotal >= 5 THEN 10
              ELSE IF FracLT(accuracy, 60) /\ recentTotal >= 3 THEN -20
              ELSE IF FracLT(accuracy, 40) /\ recentTotal >= 3 THEN -40
              ELSE 0
          bySpeed ==
              IF FracLT(averageTime, 2000) /\ FracGE(accuracy, 85) THEN 20
              ELSE IF FracGT(averageTime, 10000) THEN -10
              ELSE 0
      IN  RoundToTenth(baseDifficulty + byAccuracy + bySpeed)

adjustDifficultyBasedOnPerformance(baseDifficulty, perf) ==
    IF ~perf.present THEN baseDifficulty
    ELSE
      LET accuracy == perf.accuracy
          averageTime == perf.averageTime
          recentTotal == perf.recentTotal
          byAccuracy ==
              IF FracGE(accuracy, 90) /\ recentTotal >= 5 THEN 30
              ELSE IF FracGE(accuracy, 80) /\ recentTotal >= 5 THEN 10
              ELSE IF FracLT(accuracy, 60) /\ recentTotal >= 3 THEN -20
              ELSE IF FracLT(accuracy, 40) /\ recentTotal >= 3 THEN -40
              ELSE 0
          bySpeed ==
              IF FracLT(averageTime, 2000) /\ FracGE(accuracy, 85) THEN 20
              ELSE IF FracGT(averageTime, 10000) THEN -10
              ELSE 0
          adjustment == byAccuracy + bySpeed
          adjustedDifficulty == Max(100, Min(1000, baseDifficulty + adjustment))
      IN  RoundToTenth(adjustedDifficulty)

RECURSIVE SumSeq(_)
SumSeq(s) == IF s = << >> THEN 0 ELSE s[1] + SumSeq(Tail(s))

Question(ans, ops, operation, difficulty) ==
    [answer |-> ans, operands |-> ops, operation |-> operation, difficulty |-> difficulty]

\* d[1] decides the operand count, d[2..4] are the operand draws.
generateAddition(difficulty, d) ==
    LET range == getDifficultyRange("addition", difficulty)
        operandCount == IF difficulty >= 600 THEN (IF RandomAbove(d[1], 7) THEN 3 ELSE 2) ELSE 2
        operands == [i \in 1..operandCount |-> getRandomInRange(range.min, 2 * range.max, d[i + 1])]
        answer == SumSeq(operands)
    IN  Question(100 * answer, operands, "addition", difficulty)

\* Mutant of generateSubtraction: num2 is redrawn from the full range whenever
\* the coin says so, whatever the range and the difficulty.
generateSubtraction_AlwaysRedraw(difficulty, d) ==
    LET range == getDifficultyRange("subtraction", difficulty)
        num1 == getRandomInRange(range.min, 2 * range.max, d[1])
        first == getRandomInRange(range.min, 2 * num1, d[2])
        num2 == IF RandomAbove(d[3], 6)
                THEN getRandomInRange(range.min, 2 * range.max, d[4])
                ELSE first
        answer == num1 - num2
    IN  Question(100 * answer, << num1, num2 >>, "subtraction", difficulty)

\* d[1], d[2] draw num1 and num2, d[3] is the negative-result coin, d[4] the redraw of num2.
generateSubtraction(difficulty, d) ==
    LET range == getDifficultyRange("subtraction", difficulty)
        num1 == getRandomInRange(range.min, 2 * range.max, d[1])
        first == getRandomInRange(range.min, 2 * num1, d[2])
        num2 == IF range.allowNegatives /\ difficulty >= 600 /\ RandomAbove(d[3], 6)
                THEN getRandomInRange(range.min, 2 * range.max, d[4])
                ELSE first
        answer == num1 - num2
    IN  Question(100 * answer, << num1, num2 >>, "subtraction", difficulty)

\* d[1], d[2] draw num1 and num2.
generateMultiplication(difficulty, d) ==
    LET range == getDifficultyRange("multiplication", difficulty)
        num1 == IF difficulty <= 400
                THEN getRandomInRange(1, 2 * Min(12, range.max), d[1])
                ELSE getRandomInRange(range.min, 2 * range.max, d[1])
        num2 == IF difficulty <= 400
                THEN getRandomInRange(1, 2 * Min(12, range.max), d[2])
                ELSE getRandomInRange(range.min, Min(2 * range.max, num1), d[2])
        answer == num1 * num2
    IN  Question(100 * answer, << num1, num2 >>, "multiplication", difficulty)

\* Math.round((n / m) * 100) on exact rationals: floor(100 n / m + 1/2).
RoundedHundredths(n, m) == (200 * n + m) \div (2 * m)

\* Mutant of generateDivision: the remainder path shows the adjusted dividend
\* but keeps the exact quotient as the answer.
generateDivision_KeepQuotient(difficulty, d) ==
    LET range == getDifficultyRange("division", difficulty)
        divisorMax == IF difficulty <= 300 THEN 12 ELSE IF difficulty <= 600 THEN 25 ELSE 50
        divisor == getRandomInRange(2, 2 * divisorMax, d[1])
        quotient == getRandomInRange(1, 2 * (range.max \div divisor), d[2])
        dividend == divisor * quotient
        remainder == getRandomInRange(1, 2 * (divisor - 1), d[4])
        actualDividend == dividend + remainder
    IN  IF difficulty >= 900 /\ RandomAbove(d[3], 7) /\ range.decimalPlaces # 0
        THEN Question(100 * quotient, << actualDividend, divisor >>, "division", difficulty)
        ELSE Question(100 * quotient, << dividend, divisor >>, "division", difficulty)

\* d[1], d[2] draw divisor and quotient, d[3] is the remainder coin, d[4] the remainder.
generateDivision(difficulty, d) ==
    LET range == getDifficultyRange("division", difficulty)
        divisorMax == IF difficulty <= 300 THEN 12 ELSE IF difficulty <= 600 THEN 25 ELSE 50
        divisor == getRandomInRange(2, 2 * divisorMax, d[1])
        quotient == getRandomInRange(1, 2 * (range.max \div divisor), d[2])
        dividend == divisor * quotient
        remainder == getRandomInRange(1, 2 * (divisor - 1), d[4])
        actualDividend == dividend + remainder
    IN  IF difficulty >= 900 /\ RandomAbove(d[3], 7) /\ range.decimalPlaces # 0
        THEN Question(RoundedHundredths(actualDividend, divisor),
                      << actualDividend, divisor >>, "division", difficulty)
        ELSE Question(100 * quotient, << dividend, divisor >>, "division", difficulty)

generateQuestion(cfg, d) ==
    LET adjustedDifficulty == adjustDifficultyBasedOnPerformance(cfg.difficulty, cfg.previousPerformance)
    IN  CASE cfg.operation = "addition" -> generateAddition(adjustedDifficulty, d)
          [] cfg.operation = "subtraction" -> generateSubtraction(adjustedDifficulty, d)
          [] cfg.operation = "multiplication" -> generateMultiplication(adjustedDifficulty, d)
          [] cfg.operation = "division" -> generateDivision(adjustedDifficulty, d)

\* Mutant of validateAnswer: a decimal answer is truncated before it is compared.
validateAnswer_Truncating(question, userAnswer, tolerance) ==
    IF question.operation = "division" /\ question.answer % 100 # 0
    THEN Abs((question.answer \div 100) * 100 - userAnswer) <= tolerance
    ELSE 10 * Abs(question.answer - userAnswer) < 1

\* tolerance defaults to 0.01, one hundredth; 0.001 is a tenth of a hundredth.
validateAnswer(question, userAnswer, tolerance) ==
    IF question.operation = "division" /\ question.answer % 100 # 0
    THEN Abs(question.answer - userAnswer) <= tolerance
    ELSE 10 * Abs(question.answer - userAnswer) < 1

DefaultTolerance == 1


\* Mutant of getNextDifficulty: accuracy below 70 is tested before accuracy
\* below 60, so the -0.3 band is never taken.
getNextDifficulty_BandsSwapped(currentDifficulty, recentPerformance) ==
    LET accuracy == recentPerformance.accuracy
        averageTime == recentPerformance.averageTime
        sessionCount == recentPerformance.sessionCount
        byAccuracy ==
            IF FracGE(accuracy, 95) THEN 50
            ELSE IF FracGE(accuracy, 85) THEN 30
            ELSE IF FracGE(accuracy, 75) THEN 10
            ELSE IF FracLT(accuracy, 70) THEN -10
            ELSE IF FracLT(accuracy, 60) THEN -30
            ELSE 0
        bySpeed ==
            IF FracLT(averageTime, 3000) /\ FracGE(accuracy, 80) THEN 20
            ELSE IF FracGT(averageTime, 15000) THEN -10
            ELSE 0
        newDifficulty == Max(100, Min(1000, currentDifficulty + byAccuracy + bySpeed))
    IN  IF sessionCount < 3 THEN currentDifficulty ELSE RoundToTenth(newDifficulty)

\* Method to get a difficulty recommendation from recent performance.
getNextDifficulty(currentDifficulty, recentPerformance) ==
    LET accuracy == recentPerformance.accuracy
        averageTime == recentPerformance.averageTime
        sessionCount == recentPerformance.sessionCount
        byAccuracy ==
            IF FracGE(accuracy, 95) THEN 50
            ELSE IF FracGE(accuracy, 85) THEN 30
            ELSE IF FracGE(accuracy, 75) THEN 10
            ELSE IF FracLT(accuracy, 60) THEN -30
            ELSE IF FracLT(accuracy, 70) THEN -10
            ELSE 0
        bySpeed ==
            IF FracLT(averageTime, 3000) /\ FracGE(accuracy, 80) THEN 20
            ELSE IF FracGT(averageTime, 15000) THEN -10
            ELSE 0
        newDifficulty == Max(100, Min(1000, currentDifficulty + byAccuracy + bySpeed))
    IN  IF sessionCount < 3 THEN currentDifficulty ELSE RoundToTenth(newDifficulty)

(***************************************************************************)
(* PracticeSession document                                                *)
(*                                                                         *)
(* A stored question keeps the fields the computations read; the question  *)
(* text, hintUsed and timestamp are left out.                              *)
(***************************************************************************)
NoTime == -1
NoLimit == 0          \* settings.sessionLimit absent (falsy)

RECURSIVE CountCorrect(_)
CountCorrect(qs) ==
    IF qs = << >> THEN 0
    ELSE (IF Head(qs).isCorrect THEN 1 ELSE 0) + CountCorrect(Tail(qs))

RECURSIVE SumResponseTime(_)
SumResponseTime(qs) ==
    IF qs = << >> THEN 0 ELSE Head(qs).responseTime + SumResponseTime(Tail(qs))

RECURSIVE MinResponseTime(_)
MinResponseTime(qs) ==
    IF Len(qs) = 1 THEN qs[1].responseTime
    ELSE Min(Head(qs).responseTime, MinResponseTime(Tail(qs)))

RECURSIVE MaxResponseTime(_)
MaxResponseTime(qs) ==
    IF Len(qs) = 1 THEN qs[1].responseTime
    ELSE Max(Head(qs).responseTime, MaxResponseTime(Tail(qs)))

\* Mutant of OperationBreakdown: a question is counted as attempted only when correct.
RECURSIVE OperationBreakdown_CorrectOnly(_)
OperationBreakdown_CorrectOnly(qs) ==
    IF qs = << >> THEN [op \in Operations |-> [attempted |-> 0, correct |-> 0]]
    ELSE LET rest == OperationBreakdown_CorrectOnly(SubSeq(qs, 1, Len(qs) - 1))
             q == qs[Len(qs)]
         IN  [rest EXCEPT ![q.operation] =
                 [attempted |-> @.attempted + (IF q.isCorrect THEN 1 ELSE 0),
                  correct |-> @.correct + (IF q.isCorrect THEN 1 ELSE 0)]]

\* questions.forEach(q => { operationBreakdown[q.operation].attempted++; ... })
RECURSIVE OperationBreakdown(_)
OperationBreakdown(qs) ==
    IF qs = << >> THEN [op \in Operations |-> [attempted |-> 0, correct |-> 0]]
    ELSE LET rest == OperationBreakdown(SubSeq(qs, 1, Len(qs) - 1))
             q == qs[Len(qs)]
         IN  [rest EXCEPT ![q.operation] =
                 [attempted |-> @.attempted + 1,
                  correct |-> @.correct + (IF q.isCorrect THEN 1 ELSE 0)]]

\* Mutant of StreakLoop: a wrong answer does not reset the running streak.
RECURSIVE StreakLoop_NoReset(_, _)
StreakLoop_NoReset(qs, i) ==
    IF i = 0 THEN << 0, 0 >>
    ELSE LET before == StreakLoop_NoReset(qs, i - 1)
             currentStreak == IF qs[i].isCorrect THEN before[1] + 1 ELSE before[1]
             maxStreak == IF qs[i].isCorrect THEN Max(before[2], currentStreak) ELSE before[2]
         IN  << currentStreak, maxStreak >>

\* The streak loop: state is << currentStreak, maxStreak >> after the first i questions.
RECURSIVE StreakLoop(_, _)
StreakLoop(qs, i) ==
    IF i = 0 THEN << 0, 0 >>
    ELSE LET before == StreakLoop(qs, i - 1)
             currentStreak == IF qs[i].isCorrect THEN before[1] + 1 ELSE 0
             maxStreak == IF qs[i].isCorrect THEN Max(before[2], currentStreak) ELSE before[2]
         IN  << currentStreak, maxStreak >>

calculatePerformance(qs) ==
    LET totalQuestions == Len(qs)
    IN  IF totalQuestions = 0
        THEN [totalQuestions |-> 0, correctAnswers |-> 0, accuracy |-> Frac(0, 1),
              averageResponseTime |-> Frac(0, 1), fastestResponse |-> 0,
              slowestResponse |-> 0, difficultyProgression |-> << >>,
              operationBreakdown |-> [op \in Operations |-> [attempted |-> 0, correct |-> 0]],
              experienceEarned |-> 0, streakAchieved |-> 0]
        ELSE
          LET correctAnswers == CountCorrect(qs)
              accuracy == Frac(correctAnswers * 100, totalQuestions)
              averageResponseTime == Frac(SumResponseTime(qs), totalQuestions)
              baseExp == totalQuestions * 10
              accuracyBonus == (accuracy.num * totalQuestions) \div (accuracy.den * 10)
              speedBonus == IF averageResponseTime.num > 0
                            THEN (totalQuestions * averageResponseTime.den * 1000)
                                     \div averageResponseTime.num
                            ELSE 0
          IN  [totalQuestions |-> totalQuestions,
               correctAnswers |-> correctAnswers,
               accuracy |-> accuracy,
               averageResponseTime |-> averageResponseTime,
               fastestResponse |-> MinResponseTime(qs),
               slowestResponse |-> MaxResponseTime(qs),
               difficultyProgression |-> [i \in 1..totalQuestions |-> qs[i].difficulty],
               operationBreakdown |-> OperationBreakdown(qs),
               experienceEarned |-> baseExp + accuracyBonus + speedBonus,
               streakAchieved |-> StreakLoop(qs, totalQuestions)[2]]

\* The mutable part of the document, as one record.
Doc == [startTime |-> startTime, endTime |-> endTime, duration |-> duration,
        isCompleted |-> isCompleted, questions |-> questions, performance |-> performance]

\* Mutant of addQuestion: the question is pushed but the metrics are not recomputed.
addQuestion_NoRecompute(doc, questionData) ==
    [doc EXCEPT !.questions = Append(doc.questions, questionData)]

addQuestion(doc, questionData) ==
    LET pushed == Append(doc.questions, questionData)
    IN  [doc EXCEPT !.questions = pushed, !.performance = calculatePerformance(pushed)]

\* Mutant of completeSession: the duration is left in milliseconds.
completeSession_DurationInMs(doc, date) ==
    [doc EXCEPT !.endTime = date,
                !.duration = date - doc.startTime,
                !.isCompleted = TRUE,
                !.performance = calculatePerformance(doc.questions)]

completeSession(doc, date) ==
    [doc EXCEPT !.endTime = date,
                !.duration = (date - doc.startTime) \div 1000,
                !.isCompleted = TRUE,
                !.performance = calculatePerformance(doc.questions)]

\* Schema validation run by save(): the constraints of QuestionSchema.
RECURSIVE QuestionsValid(_)
QuestionsValid(qs) ==
    IF qs = << >> THEN TRUE
    ELSE /\ Head(qs).responseTime >= 0
         /\ Head(qs).difficulty >= 100 /\ Head(qs).difficulty <= 1000
         /\ Head(qs).operation \in Operations
         /\ Len(Head(qs).operands) >= 2
         /\ QuestionsValid(Tail(qs))

(***************************************************************************)
(* User statistics                                                         *)
(***************************************************************************)
RECURSIVE LevelFrom(_, _)
LevelFrom(experience, n) ==
    IF (n + 1) * (n + 1) * 100 > experience THEN n ELSE LevelFrom(experience, n + 1)

\* Mutant of calculateLevel: no square root, one level per 100 experience.
calculateLevel_NoSquareRoot(experience) == (experience \div 100) + 1

\* floor(sqrt(experience / 100)) + 1
calculateLevel(experience) == LevelFrom(experience, 0) + 1

\* Mutant of updateStats: the streak bonus is computed from the streak before
\* this session's streak update.
updateStats_BonusOnOldStreak(st, sessionData) ==
    LET questionsAnswered == sessionData.questionsAnswered
        accuracy == sessionData.accuracy
        sessionTime == sessionData.sessionTime
        totalQuestions == st.totalQuestions + questionsAnswered
        newTotalCorrect == st.correctAnswers + sessionData.correctAnswers
        currentStreak ==
            IF sessionData.isStreakContinued /\ FracGE(accuracy, 70) THEN st.currentStreak + 1
            ELSE IF FracLT(accuracy, 70) THEN 0
            ELSE st.currentStreak
        longestStreak ==
            IF sessionData.isStreakContinued /\ FracGE(accuracy, 70)
               /\ currentStreak > st.longestStreak
            THEN currentStreak ELSE st.longestStreak
        baseExp == questionsAnswered * 10
        accuracyBonus == (accuracy.num * questionsAnswered) \div (accuracy.den * 10)
        speedBonus == IF sessionTime > 0 THEN (questionsAnswered * 100) \div sessionTime ELSE 0
        streakBonus == IF st.currentStreak > 5 THEN st.currentStreak * 5 ELSE 0
        experience == st.experience + baseExp + accuracyBonus + speedBonus + streakBonus
    IN  [totalSessions |-> st.totalSessions + 1,
         totalQuestions |-> totalQuestions,
         correctAnswers |-> newTotalCorrect,
         totalPracticeTime |-> st.totalPracticeTime + sessionTime,
         averageAccuracy |-> Frac(newTotalCorrect * 100, totalQuestions),
         currentStreak |-> currentStreak,
         longestStreak |-> longestStreak,
         experience |-> experience,
         level |-> calculateLevel(experience)]

\* Mutant of updateStats: a session that does not continue the streak resets it
\* even when its accuracy is 70 or more.
updateStats_BreakWhenNotContinued(st, sessionData) ==
    LET questionsAnswered == sessionData.questionsAnswered
        accuracy == sessionData.accuracy
        sessionTime == sessionData.sessionTime
        totalQuestions == st.totalQuestions + questionsAnswered
        newTotalCorrect == st.correctAnswers + sessionData.correctAnswers
        currentStreak ==
            IF sessionData.isStreakContinued /\ FracGE(accuracy, 70) THEN st.currentStreak + 1
            ELSE IF FracLT(accuracy, 70) \/ ~sessionData.isStreakContinued THEN 0
            ELSE st.currentStreak
        longestStreak ==
            IF sessionData.isStreakContinued /\ FracGE(accuracy, 70)
               /\ currentStreak > st.longestStreak
            THEN currentStreak ELSE st.longestStreak
        baseExp == questionsAnswered * 10
        accuracyBonus == (accuracy.num * questionsAnswered) \div (accuracy.den * 10)
        speedBonus == IF sessionTime > 0 THEN (questionsAnswered * 100) \div sessionTime ELSE 0
        streakBonus == IF currentStreak > 5 THEN currentStreak * 5 ELSE 0
        experience == st.experience + baseExp + accuracyBonus + speedBonus + streakBonus
    IN  [totalSessions |-> st.totalSessions + 1,
         totalQuestions |-> totalQuestions,
         correctAnswers |-> newTotalCorrect,
         totalPracticeTime |-> st.totalPracticeTime + sessionTime,
         averageAccuracy |-> Frac(newTotalCorrect * 100, totalQuestions),
         currentStreak |-> currentStreak,
         longestStreak |-> longestStreak,
         experience |-> experience,
         level |-> calculateLevel(experience)]

\* Mutant of updateStats: longestStreak is never raised.
updateStats_LongestNotRaised(st, sessionData) ==
    LET questionsAnswered == sessionData.questionsAnswered
        accuracy == sessionData.accuracy
        sessionTime == sessionData.sessionTime
        totalQuestions == st.totalQuestions + questionsAnswered
        newTotalCorrect == st.correctAnswers + sessionData.correctAnswers
        currentStreak ==
            IF sessionData.isStreakContinued /\ FracGE(accuracy, 70) THEN st.currentStreak + 1
            ELSE IF FracLT(accuracy, 70) THEN 0
            ELSE st.currentStreak
        longestStreak ==
            st.longestStreak
        baseExp == questionsAnswered * 10
        accuracyBonus == (accuracy.num * questionsAnswered) \div (accuracy.den * 10)
        speedBonus == IF sessionTime > 0 THEN (questionsAnswered * 100) \div sessionTime ELSE 0
        streakBonus == IF currentStreak > 5 THEN currentStreak * 5 ELSE 0
        experience == st.experience + baseExp + accuracyBonus + speedBonus + streakBonus
    IN  [totalSessions |-> st.totalSessions + 1,
         totalQuestions |-> totalQuestions,
         correctAnswers |-> newTotalCorrect,
         totalPracticeTime |-> st.totalPracticeTime + sessionTime,
         averageAccuracy |-> Frac(newTotalCorrect * 100, totalQuestions),
         currentStreak |-> currentStreak,
         longestStreak |-> longestStreak,
         experience |-> experience,
         level |-> calculateLevel(experience)]

updateStats(st, sessionData) ==
    LET questionsAnswered == sessionData.questionsAnswered
        accuracy == sessionData.accuracy
        sessionTime == sessionData.sessionTime
        totalQuestions == st.totalQuestions + questionsAnswered
        newTotalCorrect == st.correctAnswers + sessionData.correctAnswers
        currentStreak ==
            IF sessionData.isStreakContinued /\ FracGE(accuracy, 70) THEN st.currentStreak + 1
            ELSE IF FracLT(accuracy, 70) THEN 0
            ELSE st.currentStreak
        longestStreak ==
            IF sessionData.isStreakContinued /\ FracGE(accuracy, 70)
               /\ currentStreak > st.longestStreak
            THEN currentStreak ELSE st.longestStreak
        baseExp == questionsAnswered * 10
        accuracyBonus == (accuracy.num * questionsAnswered) \div (accuracy.den * 10)
        speedBonus == IF sessionTime > 0 THEN (questionsAnswered * 100) \div sessionTime ELSE 0
        streakBonus == IF currentStreak > 5 THEN currentStreak * 5 ELSE 0
        experience == st.experience + baseExp + accuracyBonus + speedBonus + streakBonus
    IN  [totalSessions |-> st.totalSessions + 1,
         totalQuestions |-> totalQuestions,
         correctAnswers |-> newTotalCorrect,
         totalPracticeTime |-> st.totalPracticeTime + sessionTime,
         averageAccuracy |-> Frac(newTotalCorrect * 100, totalQuestions),
         currentStreak |-> currentStreak,
         longestStreak |-> longestStreak,
         experience |-> experience,
         level |-> calculateLevel(experience)]

\* The schema defaults of a new user's stats.
NewUserStats ==
    [totalSessions |-> 0, totalQuestions |-> 0, correctAnswers |-> 0,
     totalPracticeTime |-> 0, averageAccuracy |-> Frac(0, 1), currentStreak |-> 0,
     longestStreak |-> 0, experience |-> 0, level |-> 1]

\* The sessionData both handlers build from a completed document.
SessionData(doc) ==
    [questionsAnswered |-> doc.performance.totalQuestions,
     correctAnswers |-> doc.performance.correctAnswers,
     sessionTime |-> doc.duration,
     accuracy |-> doc.performance.accuracy,
     isStreakContinued |-> FracGE(doc.performance.accuracy, 70)]

(***************************************************************************)
(* PracticeController                                                      *)
(***************************************************************************)
BodyUndefined == -1   \* a request field that is absent: the destructuring default applies
BodyNull == -2        \* a request field sent as null: no default applies
DefaultSessionLimit == 10

NoQuestion == [present |-> FALSE, operation |-> "addition", difficulty |-> 100, answer |-> 0]
NoCall == [op |-> "none", result |-> "none", shouldContinue |-> FALSE]
Call(op, res, continue) == [op |-> op, result |-> res, shouldContinue |-> continue]

NoConfig == [operation |-> "addition", difficulty |-> 100, previousPerformance |-> NoPerformance]
NoDraws == << 0, 0, 0, 0 >>
NoSettings == [initialDifficulty |-> 100, adaptiveDifficulty |-> TRUE,
               sessionLimit |-> NoLimit, targetOperations |-> << "addition" >>]
EmptyDoc(date) ==
    [startTime |-> date, endTime |-> NoTime, duration |-> 0, isCompleted |-> FALSE,
     questions |-> << >>, performance |-> calculatePerformance(<< >>)]

\* Write the fields of a document record back to the stored session.
Store(doc) ==
    /\ startTime' = doc.startTime
    /\ endTime' = doc.endTime
    /\ duration' = doc.duration
    /\ isCompleted' = doc.isCompleted
    /\ questions' = doc.questions
    /\ performance' = doc.performance

\* targetOperations[Math.floor(Math.random() * targetOperations.length)]
PickOperation(operations, k) == operations[((k * Len(operations)) \div RandDen) + 1]

Issue(q) == [present |-> TRUE, operation |-> q.operation, difficulty |-> q.difficulty,
             answer |-> q.answer]

\* Mutant of shouldContinueSession: the question limit is compared with <=.
shouldContinueSession_OffByOne(type, sets, doc, date) ==
    LET currentQuestions == Len(doc.questions)
        elapsedMs == date - doc.startTime
    IN  CASE type = "question_based" ->
               currentQuestions <= (IF sets.sessionLimit # NoLimit THEN sets.sessionLimit ELSE 10)
          [] type = "timed" ->
               elapsedMs < 1000 * (IF sets.sessionLimit # NoLimit THEN sets.sessionLimit ELSE 300)
          [] type = "endless" -> TRUE
          [] OTHER -> currentQuestions <= 10

\* Mutant of shouldContinueSession: an endless session stops at the question limit.
shouldContinueSession_EndlessLimited(type, sets, doc, date) ==
    LET currentQuestions == Len(doc.questions)
        elapsedMs == date - doc.startTime
    IN  CASE type = "question_based" ->
               currentQuestions < (IF sets.sessionLimit # NoLimit THEN sets.sessionLimit ELSE 10)
          [] type = "timed" ->
               elapsedMs < 1000 * (IF sets.sessionLimit # NoLimit THEN sets.sessionLimit ELSE 300)
          [] type = "endless" ->
               currentQuestions < (IF sets.sessionLimit # NoLimit THEN sets.sessionLimit ELSE 10)
          [] OTHER -> currentQuestions < 10

\* Mutant of shouldContinueSession: a timed session still continues when the
\* elapsed time equals the limit.
shouldContinueSession_TimedInclusive(type, sets, doc, date) ==
    LET currentQuestions == Len(doc.questions)
        elapsedMs == date - doc.startTime
    IN  CASE type = "question_based" ->
               currentQuestions < (IF sets.sessionLimit # NoLimit THEN sets.sessionLimit ELSE 10)
          [] type = "timed" ->
               elapsedMs <= 1000 * (IF sets.sessionLimit # NoLimit THEN sets.sessionLimit ELSE 300)
          [] type = "endless" -> TRUE
          [] OTHER -> currentQuestions < 10

shouldContinueSession(type, sets, doc, date) ==
    LET currentQuestions == Len(doc.questions)
        elapsedMs == date - doc.startTime
    IN  CASE type = "question_based" ->
               currentQuestions < (IF sets.sessionLimit # NoLimit THEN sets.sessionLimit ELSE 10)
          [] type = "timed" ->
               elapsedMs < 1000 * (IF sets.sessionLimit # NoLimit THEN sets.sessionLimit ELSE 300)
          [] type = "endless" -> TRUE
          [] OTHER -> currentQuestions < 10

\* startSession: create the document and hand out the first question.  The
\* user has no completed session yet, so previousPerformance is undefined.
StartSession(body, opDraw, d) ==
    /\ ~sessionExists
    /\ LET sessionLimit == IF body.sessionLimit = BodyUndefined THEN DefaultSessionLimit
                           ELSE IF body.sessionLimit = BodyNull THEN NoLimit
                           ELSE body.sessionLimit
           valid == /\ body.difficulty >= 100 /\ body.difficulty <= 1000
                    /\ (body.sessionLimit \in {BodyUndefined, BodyNull} \/ body.sessionLimit >= 1)
                    /\ Len(body.operations) > 0
           firstQuestion == generateQuestion(
                                [operation |-> PickOperation(body.operations, opDraw),
                                 difficulty |-> body.difficulty,
                                 previousPerformance |-> NoPerformance], d)
       IN  IF valid
           THEN /\ sessionExists' = TRUE
                /\ sessionType' = body.sessionType
                /\ settings' = [initialDifficulty |-> body.difficulty,
                                adaptiveDifficulty |-> body.adaptiveDifficulty,
                                sessionLimit |-> sessionLimit,
                                targetOperations |-> body.operations]
                /\ Store(EmptyDoc(now))
                /\ issued' = Issue(firstQuestion)
                /\ lastCall' = Call("startSession", "ok", TRUE)
           ELSE /\ lastCall' = Call("startSession", "error", FALSE)
                /\ UNCHANGED << sessionExists, sessionType, settings, startTime, endTime,
                                duration, isCompleted, questions, performance, issued >>
    /\ UNCHANGED << stats, now, statUpdates >>
    /\ UNCHANGED genVars

\* The last n elements of a sequence: questions.slice(-n)
LastN(qs, n) == SubSeq(qs, Max(1, Len(qs) - n + 1), Len(qs))

\* submitAnswer: record the answer, then either hand out the next question or
\* complete the session and update the user's stats.
SubmitAnswer(answer, responseTime, questionData, opDraw, d) ==
    /\ IF ~(sessionExists /\ ~isCompleted)
       THEN /\ lastCall' = Call("submitAnswer", "notFound", FALSE)
            /\ UNCHANGED << startTime, endTime, duration, isCompleted, questions,
                            performance, stats, issued, statUpdates >>
       ELSE
         LET isCorrect == validateAnswer(questionData, answer, DefaultTolerance)
             added == addQuestion(Doc,
                         [correctAnswer |-> questionData.answer,
                          userAnswer |-> answer,
                          isCorrect |-> isCorrect,
                          responseTime |-> responseTime,
                          difficulty |-> questionData.difficulty,
                          operation |-> questionData.operation,
                          operands |-> questionData.operands])
             shouldContinue == shouldContinueSession(sessionType, settings, added, now)
             recentQuestions == LastN(added.questions, 5)
             recentAccuracy == Frac(CountCorrect(recentQuestions) * 100, Len(recentQuestions))
             recentAvgTime == Frac(SumResponseTime(recentQuestions), Len(recentQuestions))
             nextDifficulty ==
                 IF settings.adaptiveDifficulty /\ Len(recentQuestions) >= 3
                 THEN getNextDifficulty(questionData.difficulty,
                          [accuracy |-> recentAccuracy, averageTime |-> recentAvgTime,
                           sessionCount |-> Len(recentQuestions)])
                 ELSE settings.initialDifficulty
             nextQuestionData == generateQuestion(
                 [operation |-> PickOperation(settings.targetOperations, opDraw),
                  difficulty |-> nextDifficulty,
                  previousPerformance |->
                      [present |-> TRUE, accuracy |-> recentAccuracy,
                       averageTime |-> recentAvgTime,
                       recentCorrect |-> CountCorrect(recentQuestions),
                       recentTotal |-> Len(recentQuestions)]], d)
             completed == completeSession(added, now)
         IN  IF ~QuestionsValid(added.questions)
             THEN \* save() rejects the document: nothing is stored
                  /\ lastCall' = Call("submitAnswer", "error", shouldContinue)
                  /\ UNCHANGED << startTime, endTime, duration, isCompleted, questions,
                                  performance, stats, issued, statUpdates >>
             ELSE IF shouldContinue
             THEN /\ Store(added)
                  /\ issued' = Issue(nextQuestionData)
                  /\ lastCall' = Call("submitAnswer", "ok", TRUE)
                  /\ UNCHANGED << stats, statUpdates >>
             ELSE /\ Store(completed)
                  /\ stats' = updateStats(stats, SessionData(completed))
                  /\ statUpdates' = statUpdates + 1
                  /\ issued' = NoQuestion
                  /\ lastCall' = Call("submitAnswer", "ok", FALSE)
    /\ UNCHANGED << sessionExists, sessionType, settings, now >>
    /\ UNCHANGED genVars

\* Mutant of EndSession: the stats are updated whatever the number of questions.
EndSession_AlwaysUpdates ==
    /\ IF ~(sessionExists /\ ~isCompleted)
       THEN /\ lastCall' = Call("endSession", "notFound", FALSE)
            /\ UNCHANGED << startTime, endTime, duration, isCompleted, questions,
                            performance, stats, issued, statUpdates >>
       ELSE
         LET completed == completeSession(Doc, now)
         IN  /\ Store(completed)
             /\ stats' = updateStats(stats, SessionData(completed))
             /\ statUpdates' = statUpdates + 1
             /\ issued' = NoQuestion
             /\ lastCall' = Call("endSession", "ok", FALSE)
    /\ UNCHANGED << sessionExists, sessionType, settings, now >>
    /\ UNCHANGED genVars

\* endSession: complete an active session early.
EndSession ==
    /\ IF ~(sessionExists /\ ~isCompleted)
       THEN /\ lastCall' = Call("endSession", "notFound", FALSE)
            /\ UNCHANGED << startTime, endTime, duration, isCompleted, questions,
                            performance, stats, issued, statUpdates >>
       ELSE
         LET completed == completeSession(Doc, now)
         IN  /\ Store(completed)
             /\ IF Len(completed.questions) > 0
                THEN /\ stats' = updateStats(stats, SessionData(completed))
                     /\ statUpdates' = statUpdates + 1
                ELSE UNCHANGED << stats, statUpdates >>
             /\ issued' = NoQuestion
             /\ lastCall' = Call("endSession", "ok", FALSE)
    /\ UNCHANGED << sessionExists, sessionType, settings, now >>
    /\ UNCHANGED genVars

\* pauseSession: only reports the state of an active session.
PauseSession ==
    /\ lastCall' = Call("pauseSession",
                        IF sessionExists /\ ~isCompleted THEN "ok" ELSE "notFound", FALSE)
    /\ UNCHANGED << sessionExists, sessionType, settings, startTime, endTime, duration,
                    isCompleted, questions, performance, stats, now, issued, statUpdates >>
    /\ UNCHANGED genVars

\* Time passes.
Tick(date) ==
    /\ date > now
    /\ now' = date
    /\ UNCHANGED << sessionExists, sessionType, settings, startTime, endTime, duration,
                    isCompleted, questions, performance, stats, issued, lastCall,
                    statUpdates >>
    /\ UNCHANGED genVars

\* The document's addQuestion method, called directly on the session.
AddQuestion(questionData) ==
    /\ sessionExists
    /\ Store(addQuestion(Doc, questionData))
    /\ lastCall' = Call("addQuestion", "ok", FALSE)
    /\ UNCHANGED << sessionExists, sessionType, settings, stats, now, issued, statUpdates >>
    /\ UNCHANGED genVars

\* The document's completeSession method, called directly on the session.
CompleteSession ==
    /\ sessionExists
    /\ Store(completeSession(Doc, now))
    /\ lastCall' = Call("completeSession", "ok", FALSE)
    /\ UNCHANGED << sessionExists, sessionType, settings, stats, now, issued, statUpdates >>
    /\ UNCHANGED genVars

\* generateQuestion applied to the inputs drawn by InitGen.
GenerateQuestion ==
    /\ ~generated.present
    /\ generated' = [present |-> TRUE, question |-> generateQuestion(config, draws)]
    /\ UNCHANGED << config, draws, validation, args, result, requests >>
    /\ UNCHANGED sessionVars

\* validateAnswer applied to the generated question, with the default tolerance.
ValidateAnswer(userAnswer) ==
    /\ generated.present
    /\ ~validation.present
    /\ validation' = [present |-> TRUE, userAnswer |-> userAnswer,
                      result |-> validateAnswer(generated.question, userAnswer, DefaultTolerance)]
    /\ UNCHANGED << config, draws, generated, args, result, requests >>
    /\ UNCHANGED sessionVars

\* adjustDifficultyBasedOnPerformance applied to one base difficulty and to two
\* performance records (args.low and args.high).
AdjustDifficulty ==
    /\ args.present
    /\ ~result.present
    /\ result' = [present |-> TRUE,
                  low |-> adjustDifficultyBasedOnPerformance(args.baseDifficulty, args.low),
                  high |-> adjustDifficultyBasedOnPerformance(args.baseDifficulty, args.high)]
    /\ UNCHANGED << config, draws, generated, validation, args, requests >>
    /\ UNCHANGED sessionVars

\* getNextDifficulty applied to the arguments drawn by the initial state.
NextDifficulty ==
    /\ args.present
    /\ ~result.present
    /\ result' = [present |-> TRUE,
                  value |-> getNextDifficulty(args.currentDifficulty, args.recentPerformance)]
    /\ UNCHANGED << config, draws, generated, validation, args, requests >>
    /\ UNCHANGED sessionVars

\* user.updateStats(sessionData) on the user's stats, called directly.
UpdateStats(sessionData) ==
    /\ stats.totalSessions < MaxUpdates
    /\ stats' = updateStats(stats, sessionData)
    /\ args' = [present |-> TRUE, sessionData |-> sessionData]
    /\ UNCHANGED << sessionExists, sessionType, settings, startTime, endTime, duration,
                    isCompleted, questions, performance, now, issued, lastCall, statUpdates >>
    /\ UNCHANGED << config, draws, generated, validation, result, requests >>

(***************************************************************************)
(* The handlers step by step.  A handler runs alone between two awaits, so *)
(* each await (findOne, save, findById) is one step; the local document    *)
(* and user a call works on are in requests[r].  save() writes what the    *)
(* call modified: the pushed question is appended to the stored array and  *)
(* the assigned paths are set.                                             *)
(***************************************************************************)
\* The handler calls that may be in progress at once, and one that is not.
RequestIds == {1, 2}
NoInput ==
    [answer |-> 0, responseTime |-> 0,
     questionData |-> [answer |-> 0, operation |-> "addition", difficulty |-> 100,
                       operands |-> << >>]]
IdleRequest ==
    [pc |-> "idle", op |-> "none", input |-> NoInput, doc |-> EmptyDoc(0),
     user |-> NewUserStats]
NoRequests == [r \in RequestIds |-> IdleRequest]

\* PracticeSession.findOne({_id, userId, isCompleted: false}) of submitAnswer
\* (op = "submitAnswer", with the request body) or endSession.
LoadSession(r, op, input) ==
    /\ requests[r].pc \in {"idle", "done"}
    /\ requests' = [requests EXCEPT ![r] =
                      IF sessionExists /\ ~isCompleted
                      THEN [pc |-> "loaded", op |-> op, input |-> input, doc |-> Doc,
                            user |-> NewUserStats]
                      ELSE [IdleRequest EXCEPT !.pc = "done", !.op = op]]
    /\ UNCHANGED sessionVars
    /\ UNCHANGED << config, draws, generated, validation, args, result >>

\* submitAnswer from the loaded session to its first save: addQuestion on the
\* local document, then either session.save() or completeSession().
SubmitSave(r) ==
    /\ requests[r].pc = "loaded"
    /\ requests[r].op = "submitAnswer"
    /\ LET in == requests[r].input
           isCorrect == validateAnswer(in.questionData, in.answer, DefaultTolerance)
           added == addQuestion(requests[r].doc,
                       [correctAnswer |-> in.questionData.answer,
                        userAnswer |-> in.answer,
                        isCorrect |-> isCorrect,
                        responseTime |-> in.responseTime,
                        difficulty |-> in.questionData.difficulty,
                        operation |-> in.questionData.operation,
                        operands |-> in.questionData.operands])
           pushed == added.questions[Len(added.questions)]
           shouldContinue == shouldContinueSession(sessionType, settings, added, now)
           completed == completeSession(added, now)
       IN  IF ~QuestionsValid(added.questions)
           THEN /\ requests' = [requests EXCEPT ![r].pc = "done"]
                /\ UNCHANGED << endTime, duration, isCompleted, questions, performance >>
           ELSE IF shouldContinue
           THEN /\ questions' = Append(questions, pushed)
                /\ performance' = added.performance
                /\ requests' = [requests EXCEPT ![r].pc = "done", ![r].doc = added]
                /\ UNCHANGED << endTime, duration, isCompleted >>
           ELSE /\ questions' = Append(questions, pushed)
                /\ performance' = completed.performance
                /\ endTime' = completed.endTime
                /\ duration' = completed.duration
                /\ isCompleted' = completed.isCompleted
                /\ requests' = [requests EXCEPT ![r].pc = "completed", ![r].doc = completed]
    /\ UNCHANGED << sessionExists, sessionType, settings, startTime, stats, now, issued,
                    lastCall, statUpdates >>
    /\ UNCHANGED << config, draws, generated, validation, args, result >>

\* endSession from the loaded session to the save of completeSession().
EndSave(r) ==
    /\ requests[r].pc = "loaded"
    /\ requests[r].op = "endSession"
    /\ LET completed == completeSession(requests[r].doc, now)
       IN  /\ performance' = completed.performance
           /\ endTime' = completed.endTime
           /\ duration' = completed.duration
           /\ isCompleted' = completed.isCompleted
           /\ requests' = [requests EXCEPT ![r].pc = "completed", ![r].doc = completed]
    /\ UNCHANGED << sessionExists, sessionType, settings, startTime, questions, stats, now,
                    issued, lastCall, statUpdates >>
    /\ UNCHANGED << config, draws, generated, validation, args, result >>

\* User.findById(userId) after the session was completed; endSession goes on
\* to updateStats only if its session has questions.
LoadUser(r) ==
    /\ requests[r].pc = "completed"
    /\ requests' = [requests EXCEPT ![r] =
                      IF requests[r].op = "endSession" /\ Len(requests[r].doc.questions) = 0
                      THEN [requests[r] EXCEPT !.pc = "done"]
                      ELSE [requests[r] EXCEPT !.pc = "userLoaded", !.user = stats]]
    /\ UNCHANGED sessionVars
    /\ UNCHANGED << config, draws, generated, validation, args, result >>

\* user.updateStats(...) on the loaded user, saved.
SaveUser(r) ==
    /\ requests[r].pc = "userLoaded"
    /\ stats' = updateStats(requests[r].user, SessionData(requests[r].doc))
    /\ statUpdates' = statUpdates + 1
    /\ requests' = [requests EXCEPT ![r].pc = "done"]
    /\ UNCHANGED << sessionExists, sessionType, settings, startTime, endTime, duration,
                    isCompleted, questions, performance, now, issued, lastCall >>
    /\ UNCHANGED << config, draws, generated, validation, args, result >>

(***************************************************************************)
(* Input sets                                                              *)
(***************************************************************************)
Draws == 0..(RandDen - 1)
ClockValues == {0, 1500, 300000}
UserAnswers == {300, 400}
ResponseTimes == {1500, 16000}
ValidOperands == << 1, 2 >>

NoArgs == [present |-> FALSE]
NoResult == [present |-> FALSE]

Body(type, difficulty, limit, adaptive, operations) ==
    [sessionType |-> type, difficulty |-> difficulty, sessionLimit |-> limit,
     adaptiveDifficulty |-> adaptive, operations |-> operations]

\* What a client sends back for the question it was issued.
ClientQuestionData(answers, operandSets) ==
    { [answer |-> a, operation |-> issued.operation, difficulty |-> issued.difficulty,
       operands |-> o] : a \in answers, o \in operandSets }

SessionInit ==
    /\ sessionExists = FALSE
    /\ sessionType = "question_based"
    /\ settings = NoSettings
    /\ startTime = 0
    /\ endTime = NoTime
    /\ duration = 0
    /\ isCompleted = FALSE
    /\ questions = << >>
    /\ performance = calculatePerformance(<< >>)
    /\ stats = NewUserStats
    /\ now = 0
    /\ issued = NoQuestion
    /\ lastCall = NoCall
    /\ statUpdates = 0

GenIdle ==
    /\ config = NoConfig
    /\ draws = NoDraws
    /\ generated = [present |-> FALSE]
    /\ validation = [present |-> FALSE]
    /\ args = NoArgs
    /\ result = NoResult
    /\ requests = NoRequests

(***************************************************************************)
(* Spec: the controller's handlers, one request at a time.                 *)
(***************************************************************************)
StartBodies ==
    { Body(t, 100, l, a, << "addition", "division" >>) :
        t \in {"question_based", "timed", "endless"},
        l \in {BodyNull, 1, 2},
        a \in BOOLEAN }

Init == SessionInit /\ GenIdle

Next ==
    \/ \E body \in StartBodies, k \in Draws : StartSession(body, k, NoDraws)
    \/ \E a \in UserAnswers, rt \in ResponseTimes, k \in Draws :
         \E qd \in ClientQuestionData({300}, {ValidOperands, << >>}) :
            /\ Len(questions) < MaxQuestions
            /\ SubmitAnswer(a, rt, qd, k, NoDraws)
    \/ EndSession
    \/ PauseSession
    \/ \E t \in ClockValues : Tick(t)

Spec == Init /\ [][Next]_vars

(***************************************************************************)
(* SpecAPI: the document's methods called directly, in any order, next to  *)
(* the handlers.                                                           *)
(***************************************************************************)
Entry(correct, responseTime, difficulty, operation) ==
    [correctAnswer |-> 300, userAnswer |-> IF correct THEN 300 ELSE 400,
     isCorrect |-> correct, responseTime |-> responseTime, difficulty |-> difficulty,
     operation |-> operation, operands |-> ValidOperands]

APIEntries ==
    { Entry(TRUE, 1500, 100, "addition"), Entry(FALSE, 16000, 100, "addition"),
      Entry(TRUE, 16000, 250, "division"), Entry(FALSE, 1500, 1000, "multiplication") }

APIBodies == { Body("question_based", 100, 2, TRUE, << "addition" >>) }

NextAPI ==
    \/ \E body \in APIBodies : StartSession(body, 0, NoDraws)
    \/ \E e \in APIEntries : Len(questions) < MaxAPIQuestions /\ AddQuestion(e)
    \/ CompleteSession
    \/ \E a \in UserAnswers :
         \E qd \in ClientQuestionData({300}, {ValidOperands}) :
            /\ Len(questions) < MaxAPIQuestions
            /\ SubmitAnswer(a, 1500, qd, 0, NoDraws)
    \/ EndSession
    \/ PauseSession
    \/ \E t \in ClockValues : Tick(t)

SpecAPI == Init /\ [][NextAPI]_vars

(***************************************************************************)
(* SpecLimit: question_based sessions answered one request at a time until *)
(* they complete by themselves.                                            *)
(***************************************************************************)
LimitBodies ==
    { Body("question_based", 100, l, a, << "addition" >>) :
        l \in {BodyUndefined, BodyNull, 1, 2, 3}, a \in BOOLEAN }

NextLimit ==
    \/ \E body \in LimitBodies : StartSession(body, 0, NoDraws)
    \/ \E a \in UserAnswers :
         \E qd \in ClientQuestionData({300}, {ValidOperands}) :
            SubmitAnswer(a, 1500, qd, 0, NoDraws)
    \/ PauseSession

SpecLimit == Init /\ [][NextLimit]_vars

(***************************************************************************)
(* SpecGen: generateQuestion and validateAnswer as functions of their      *)
(* inputs and of the outcomes of the random draws.                         *)
(***************************************************************************)
\* Five recent answers, all correct, two seconds and a half each: no adjustment
\* for speed, +0.3 for accuracy.
GoodPerformance ==
    [present |-> TRUE, accuracy |-> Frac(500, 5), averageTime |-> Frac(12500, 5),
     recentCorrect |-> 5, recentTotal |-> 5]

GenConfigs ==
    { [operation |-> op, difficulty |-> 100 * level, previousPerformance |-> perf] :
        op \in Operations, level \in 1..10, perf \in {NoPerformance, GoodPerformance} }

\* What the user types: the answer itself, or the answer missed by 0.01 or by 1.
AnswerOffsets == {0, 1, 100}

InitGen ==
    /\ SessionInit
    /\ config \in GenConfigs
    /\ draws \in [1..4 -> Draws]
    /\ generated = [present |-> FALSE]
    /\ validation = [present |-> FALSE]
    /\ args = NoArgs
    /\ result = NoResult
    /\ requests = NoRequests

NextGen ==
    \/ GenerateQuestion
    \/ \E o \in AnswerOffsets : ValidateAnswer(generated.question.answer + o)

SpecGen == InitGen /\ [][NextGen]_vars

(***************************************************************************)
(* Properties                                                              *)
(***************************************************************************)

\* C1: once a session has isCompleted = TRUE, no later operation changes its
\* isCompleted, questions, performance, endTime or duration.
C1_CompletedIsImmutable ==
    [][isCompleted =>
          /\ isCompleted'
          /\ questions' = questions
          /\ performance' = performance
          /\ endTime' = endTime
          /\ duration' = duration]_vars

\* C2: addQuestion called on a completed session fails with SessionClosed and
\* leaves the question sequence and the performance as they were.
C2_AddQuestionRejectedWhenClosed ==
    [][(isCompleted /\ \E e \in APIEntries : AddQuestion(e)) =>
          /\ lastCall'.result = "SessionClosed"
          /\ questions' = questions
          /\ performance' = performance]_vars

\* C3: completeSession called on a completed session fails with
\* AlreadyCompleted and leaves endTime and duration as the first completion set them.
C3_SecondCompletionRejected ==
    [][(isCompleted /\ CompleteSession) =>
          /\ lastCall'.result = "AlreadyCompleted"
          /\ endTime' = endTime
          /\ duration' = duration]_vars

\* The limit a question_based session runs to: sessionLimit, or 10 when unset.
QuestionLimit == IF settings.sessionLimit = NoLimit THEN 10 ELSE settings.sessionLimit

\* C4: a question_based session answered one request at a time holds at most
\* L questions, is Completed exactly when it holds L of them, and every
\* submitAnswer reports shouldContinue = (number of recorded answers < L).
C4_CompletesAtLimit ==
    (sessionExists /\ sessionType = "question_based") =>
        /\ Len(questions) <= QuestionLimit
        /\ isCompleted <=> (Len(questions) = QuestionLimit)
        /\ (lastCall.op = "submitAnswer" /\ lastCall.result = "ok") =>
              (lastCall.shouldContinue <=> (Len(questions) < QuestionLimit))

\* C4 witness: a session without a limit has completed on its 10th answer.
C4_Witness ==
    /\ isCompleted
    /\ settings.sessionLimit = NoLimit
    /\ Len(questions) = 10
    /\ lastCall = Call("submitAnswer", "ok", FALSE)

\* C5 as stated: every completed session has had the user's stats updated
\* exactly once.
C5_UpdatedExactlyOnce == isCompleted => (statUpdates = 1 /\ stats.totalSessions = 1)

\* C5 as amended: a session completed by the handlers has had the user's stats
\* updated exactly once when it holds at least one question and not at all
\* when it was ended with no question; an active session never has.
C5_UpdatedOnceUnlessEmpty ==
    /\ stats.totalSessions = statUpdates
    /\ isCompleted => statUpdates = (IF Len(questions) > 0 THEN 1 ELSE 0)
    /\ ~isCompleted => statUpdates = 0

\* C5 witness: an empty session ended early, left without a stats update.
C5_Witness ==
    /\ isCompleted
    /\ Len(questions) = 0
    /\ lastCall = Call("endSession", "ok", FALSE)
    /\ statUpdates = 0

\* C6: the stored performance is the one recomputed from the stored
\* questions: totalQuestions is their number, correctAnswers the number of
\* correct ones, difficultyProgression their difficulties in insertion order.
C6_PerformanceMatchesQuestions ==
    /\ performance.totalQuestions = Len(questions)
    /\ performance.correctAnswers =
           Cardinality({i \in 1..Len(questions) : questions[i].isCorrect})
    /\ Len(performance.difficultyProgression) = Len(questions)
    /\ \A i \in 1..Len(questions) :
           performance.difficultyProgression[i] = questions[i].difficulty
    /\ performance = calculatePerformance(questions)

\* C6 witness: a question was added by the method after a completion.
C6_Witness ==
    /\ isCompleted
    /\ lastCall.op = "addQuestion"
    /\ Len(questions) >= 3
    /\ performance.correctAnswers = 2

\* C7: accuracy is 100 * correctAnswers / totalQuestions, every metric is
\* zero for the empty sequence, and the attempted counts sum to totalQuestions.
C7_AccuracyAndBreakdown ==
    LET p == performance
        b == p.operationBreakdown
    IN  /\ p.totalQuestions > 0 =>
              p.accuracy.num * p.totalQuestions = 100 * p.correctAnswers * p.accuracy.den
        /\ p.totalQuestions = 0 =>
              /\ p.accuracy.num = 0 /\ p.correctAnswers = 0
              /\ p.averageResponseTime.num = 0
              /\ p.fastestResponse = 0 /\ p.slowestResponse = 0
              /\ p.difficultyProgression = << >>
              /\ p.experienceEarned = 0 /\ p.streakAchieved = 0
              /\ \A op \in Operations : b[op].attempted = 0 /\ b[op].correct = 0
        /\ b["addition"].attempted + b["subtraction"].attempted
             + b["multiplication"].attempted + b["division"].attempted = p.totalQuestions

\* C7 witness: one correct answer out of three, over three operations.
C7_Witness ==
    /\ performance.totalQuestions = 3
    /\ performance.correctAnswers = 1
    /\ performance.operationBreakdown["addition"].attempted = 1
    /\ performance.operationBreakdown["division"].attempted = 1
    /\ performance.operationBreakdown["multiplication"].attempted = 1

\* The questions i .. i+k-1 are all correct.
IsRun(qs, i, k) == \A j \in i..(i + k - 1) : qs[j].isCorrect
HasRun(qs, k) == \E i \in 1..(Len(qs) - k + 1) : IsRun(qs, i, k)
LongestRun(qs) == CHOOSE k \in 0..Len(qs) :
                      HasRun(qs, k) /\ \A m \in (k + 1)..Len(qs) : ~HasRun(qs, m)

\* C8: streakAchieved is the length of the longest run of consecutive correct
\* answers in insertion order.
C8_StreakIsLongestRun == performance.streakAchieved = LongestRun(questions)

\* C8 witness: the answers correct, correct, wrong, correct give 2.
C8_Witness ==
    /\ Len(questions) = 4
    /\ questions[1].isCorrect /\ questions[2].isCorrect
    /\ ~questions[3].isCorrect /\ questions[4].isCorrect
    /\ performance.streakAchieved = 2

RECURSIVE ProductSeq(_)
ProductSeq(s) == IF s = << >> THEN 1 ELSE s[1] * ProductSeq(Tail(s))

\* ans (hundredths) is n/m rounded to two decimal places.
IsRoundedQuotient(ans, n, m) == 2 * Abs(100 * n - ans * m) <= m

\* C9: a generated question has at least 2 operands and its answer is the
\* operands combined under its operation.
C9_AnswerMatchesOperands ==
    generated.present =>
        LET q == generated.question
            o == q.operands
        IN  /\ Len(o) >= 2
            /\ q.operation = config.operation
            /\ q.operation = "addition" => q.answer = 100 * SumSeq(o)
            /\ q.operation = "subtraction" => q.answer = 100 * (o[1] - o[2])
            /\ q.operation = "multiplication" => q.answer = 100 * ProductSeq(o)
            /\ q.operation = "division" =>
                  /\ Len(o) = 2 /\ o[2] # 0
                  /\ \/ q.answer * o[2] = 100 * o[1]
                     \/ (q.difficulty >= 900 /\ IsRoundedQuotient(q.answer, o[1], o[2]))

\* C9 witness: a division on the remainder path, with a non-integer answer.
C9_Witness ==
    /\ generated.present
    /\ generated.question.operation = "division"
    /\ generated.question.answer % 100 # 0
    /\ generated.question.operands[1] % generated.question.operands[2] # 0

\* C10: validateAnswer accepts the question's own answer.
C10_ValidateReflexive ==
    (validation.present /\ validation.userAnswer = generated.question.answer) =>
        validation.result

\* C10 witness: a non-integer division answer checked against itself.
C10_Witness ==
    /\ validation.present
    /\ validation.userAnswer = generated.question.answer
    /\ generated.question.operation = "division"
    /\ generated.question.answer % 100 # 0
    /\ validation.result

(***************************************************************************)
(* SpecAdjust: adjustDifficultyBasedOnPerformance as a function of the     *)
(* base difficulty a caller passes and of previousPerformance.             *)
(***************************************************************************)
\* Accuracies around every threshold of the two difficulty functions.
Accuracies == {0, 39, 40, 59, 60, 69, 70, 74, 75, 79, 80, 84, 85, 89, 90, 94, 95, 100}

\* Base difficulties: inside [1, 10], at its ends, and outside it (getQuickQuestion
\* passes Number(req.query.difficulty) as it comes).
AdjustBases == {50, 100, 110, 500, 555, 990, 1000, 1500}
AdjustTimes == {1500, 2000, 10000, 12000}
AdjustTotals == {0, 2, 3, 5}

Performance(accuracy, averageTime, recentTotal) ==
    [present |-> TRUE, accuracy |-> Frac(accuracy, 1), averageTime |-> Frac(averageTime, 1),
     recentCorrect |-> (accuracy * recentTotal) \div 100, recentTotal |-> recentTotal]

\* Two performance records that differ in accuracy only, the lower one first,
\* or no previousPerformance at all.
AdjustArgs ==
    { [present |-> TRUE, baseDifficulty |-> b,
       low |-> Performance(a1, t, n), high |-> Performance(a2, t, n)] :
         b \in AdjustBases, t \in AdjustTimes, n \in AdjustTotals,
         a1 \in Accuracies, a2 \in Accuracies }
    \cup
    { [present |-> TRUE, baseDifficulty |-> b, low |-> NoPerformance, high |-> NoPerformance] :
         b \in AdjustBases }

InitAdjust ==
    /\ SessionInit
    /\ config = NoConfig
    /\ draws = NoDraws
    /\ generated = [present |-> FALSE]
    /\ validation = [present |-> FALSE]
    /\ args \in AdjustArgs
    /\ result = NoResult
    /\ requests = NoRequests

NextAdjust == AdjustDifficulty

SpecAdjust == InitAdjust /\ [][NextAdjust]_vars

(***************************************************************************)
(* SpecNextDifficulty: getNextDifficulty as a function of its arguments.   *)
(***************************************************************************)
NextCurrents == {100, 120, 555, 980, 1000}
NextTimes == {1500, 3000, 15000, 16000}
NextCounts == {0, 2, 3, 5}

NextDifficultyArgs ==
    { [present |-> TRUE, currentDifficulty |-> c,
       recentPerformance |-> [accuracy |-> Frac(a, 1), averageTime |-> Frac(t, 1),
                              sessionCount |-> n]] :
         c \in NextCurrents, a \in Accuracies, t \in NextTimes, n \in NextCounts }

InitNextDifficulty ==
    /\ SessionInit
    /\ config = NoConfig
    /\ draws = NoDraws
    /\ generated = [present |-> FALSE]
    /\ validation = [present |-> FALSE]
    /\ args \in NextDifficultyArgs
    /\ result = NoResult
    /\ requests = NoRequests

NextNextDifficulty == NextDifficulty

SpecNextDifficulty == InitNextDifficulty /\ [][NextNextDifficulty]_vars

\* C11: the output of adjustDifficultyBasedOnPerformance is within [1, 10],
\* whatever the base difficulty and with or without previousPerformance.
C11_AdjustedWithinBounds ==
    result.present =>
        /\ result.low >= 100 /\ result.low <= 1000
        /\ result.high >= 100 /\ result.high <= 1000

\* C12: for a fixed base difficulty, averageTime and recentTotal, the adjusted
\* difficulty for the higher accuracy is not lower than for the lower accuracy.
C12_MonotonicInAccuracy ==
    (/\ result.present
     /\ args.low.present /\ args.high.present
     /\ args.low.accuracy.num * args.high.accuracy.den
           <= args.high.accuracy.num * args.low.accuracy.den)
        => result.low <= result.high

\* C12 witness: fast answers, accuracy 84 against 85, five recent answers:
\* the higher accuracy earns the speed bonus.
C12_Witness ==
    /\ result.present
    /\ args.low.present /\ args.high.present
    /\ args.baseDifficulty = 555
    /\ args.low.accuracy = Frac(84, 1) /\ args.high.accuracy = Frac(85, 1)
    /\ args.low.averageTime = Frac(1500, 1) /\ args.low.recentTotal = 5
    /\ result.low = 570 /\ result.high = 590

\* The adjustment for accuracy that C13 states, in hundredths.
C13_AccuracyBand(a) ==
    IF a.num >= 95 * a.den THEN 50
    ELSE IF a.num >= 85 * a.den THEN 30
    ELSE IF a.num >= 75 * a.den THEN 10
    ELSE IF a.num < 60 * a.den THEN -30
    ELSE IF a.num >= 60 * a.den /\ a.num < 70 * a.den THEN -10
    ELSE 0

\* The adjustment for speed that C13 states, in hundredths.
C13_SpeedTerm(a, t) ==
    IF t.num < 3000 * t.den /\ a.num >= 80 * a.den THEN 20
    ELSE IF t.num > 15000 * t.den THEN -10
    ELSE 0

\* x is v clamped to [1, 10] and rounded to one decimal.
C13_ClampedRounded(x, v) ==
    LET c == IF v < 100 THEN 100 ELSE IF v > 1000 THEN 1000 ELSE v
    IN  /\ x % 10 = 0
        /\ 2 * (x - c) <= 10 /\ 2 * (c - x) < 10

\* C13: getNextDifficulty returns current unchanged when sessionCount < 3, and
\* otherwise current plus the accuracy band plus the speed term, clamped to
\* [1, 10] and rounded to one decimal.
C13_NextDifficultyBands ==
    result.present =>
        LET p == args.recentPerformance
        IN  IF p.sessionCount < 3
            THEN result.value = args.currentDifficulty
            ELSE C13_ClampedRounded(result.value,
                     args.currentDifficulty + C13_AccuracyBand(p.accuracy)
                         + C13_SpeedTerm(p.accuracy, p.averageTime))

\* C13 witness: accuracy 59 with slow answers from 5.55: 5.55 - 0.3 - 0.1,
\* rounded to 5.2 (5.15 rounds half up).
C13_Witness ==
    /\ result.present
    /\ args.currentDifficulty = 555
    /\ args.recentPerformance.accuracy = Frac(59, 1)
    /\ args.recentPerformance.averageTime = Frac(16000, 1)
    /\ args.recentPerformance.sessionCount = 3
    /\ result.value = 520

(***************************************************************************)
(* SpecUser: a user's stats under a sequence of updateStats calls.         *)
(***************************************************************************)
UserSession(questionsAnswered, correctAnswers, sessionTime, isStreakContinued) ==
    [questionsAnswered |-> questionsAnswered,
     correctAnswers |-> correctAnswers,
     sessionTime |-> sessionTime,
     accuracy |-> Frac(correctAnswers * 100, questionsAnswered),
     isStreakContinued |-> isStreakContinued]

\* 8 of 10 in 60 s (accuracy 80) and 1 of 3 (accuracy 33.3) in 0 s or 7 s, each
\* with either value of isStreakContinued. For these floor(accuracy * q * 0.1)
\* is the same in doubles as in exact arithmetic.
UserSessions ==
    { UserSession(10, 8, 60, TRUE), UserSession(10, 8, 60, FALSE),
      UserSession(3, 1, 7, TRUE), UserSession(3, 1, 0, FALSE) }

InitUser == SessionInit /\ GenIdle

NextUser == \E sd \in UserSessions : UpdateStats(sd)

SpecUser == InitUser /\ [][NextUser]_vars

\* A step that is one updateStats call.
UpdateStep == stats'.totalSessions = stats.totalSessions + 1

\* The experience C14 states for one update, from the session data and the
\* streak the update leaves.
C14_Award(sd, streak) ==
    sd.questionsAnswered * 10
      + (sd.accuracy.num * sd.questionsAnswered) \div (sd.accuracy.den * 10)
      + (IF sd.sessionTime > 0 THEN (sd.questionsAnswered * 100) \div sd.sessionTime ELSE 0)
      + (IF streak > 5 THEN streak * 5 ELSE 0)

\* C14: each updateStats adds exactly q*10 + floor(accuracy*q*0.1)
\* + (floor(q/sessionTime*100) if sessionTime > 0) + (currentStreak*5 if
\* currentStreak > 5) to experience; from experience 0, 10 questions at
\* accuracy 80 in 60 s with a streak of at most 5 give experience 196, level 2.
C14_ExperienceAwarded ==
    [][UpdateStep =>
          /\ stats'.experience - stats.experience
                = C14_Award(args'.sessionData, stats'.currentStreak)
          /\ (/\ stats.experience = 0
              /\ args'.sessionData.questionsAnswered = 10
              /\ args'.sessionData.accuracy = Frac(800, 10)
              /\ args'.sessionData.sessionTime = 60
              /\ stats'.currentStreak <= 5)
                => (stats'.experience = 196 /\ stats'.level = 2)]_vars

\* C14 witness: the sixth session in a row that continues the streak has been
\* awarded 196 + 30.
C14_Witness ==
    /\ stats.totalSessions = 6
    /\ stats.currentStreak = 6
    /\ args.present
    /\ args.sessionData = UserSession(10, 8, 60, TRUE)
    /\ stats.experience = 6 * 196 + 30

\* C15: over any sequence of updates experience never decreases, level never
\* decreases, and after each update level = floor(sqrt(experience/100)) + 1.
C15_ExperienceAndLevelMonotonic ==
    [][/\ stats'.experience >= stats.experience
       /\ stats'.level >= stats.level
       /\ UpdateStep =>
             /\ stats'.level >= 1
             /\ (stats'.level - 1) * (stats'.level - 1) * 100 <= stats'.experience
             /\ stats'.experience < stats'.level * stats'.level * 100]_vars

\* C15 witness: three updates have taken the user to level 3.
C15_Witness ==
    /\ stats.totalSessions = 3
    /\ stats.experience = 588
    /\ stats.level = 3

\* C16: isStreakContinued and accuracy >= 70 increment currentStreak and raise
\* longestStreak to it if larger; accuracy < 70 resets currentStreak to 0;
\* isStreakContinued false with accuracy >= 70 leaves both unchanged.
C16_StreakRules ==
    [][UpdateStep =>
          LET sd == args'.sessionData
              high == sd.accuracy.num >= 70 * sd.accuracy.den
          IN  /\ (sd.isStreakContinued /\ high) =>
                    /\ stats'.currentStreak = stats.currentStreak + 1
                    /\ stats'.longestStreak
                          = IF stats'.currentStreak > stats.longestStreak
                            THEN stats'.currentStreak ELSE stats.longestStreak
              /\ ~high =>
                    /\ stats'.currentStreak = 0
                    /\ stats'.longestStreak = stats.longestStreak
              /\ (~sd.isStreakContinued /\ high) =>
                    /\ stats'.currentStreak = stats.currentStreak
                    /\ stats'.longestStreak = stats.longestStreak]_vars

\* C16 witness: a streak of 2 was kept by a session with accuracy 80 that did
\* not continue it.
C16_Witness ==
    /\ stats.totalSessions = 3
    /\ stats.currentStreak = 2
    /\ stats.longestStreak = 2
    /\ args.present
    /\ ~args.sessionData.isStreakContinued
    /\ args.sessionData.accuracy = Frac(800, 10)

(***************************************************************************)
(* The session handlers (Spec): difficulty feed-forward and termination.   *)
(***************************************************************************)
\* A step that records one answer.
AnswerRecorded == Len(questions') = Len(questions) + 1

\* The difficulty C17 states for the question after the recorded ones.
C17_FedForward(qs, sets) ==
    LET n == Len(qs)
        recent == LastN(qs, 5)
    IN  IF sets.adaptiveDifficulty /\ n >= 3
        THEN getNextDifficulty(qs[n].difficulty,
                 [accuracy |-> Frac(CountCorrect(recent) * 100, Len(recent)),
                  averageTime |-> Frac(SumResponseTime(recent), Len(recent)),
                  sessionCount |-> Len(recent)])
        ELSE sets.initialDifficulty

\* C17: after each recorded answer in a session that continues, the next
\* question issued has the difficulty getNextDifficulty gives (adaptive, at
\* least 3 answered) and exactly the session's initialDifficulty otherwise.
C17_NextDifficultyFedForward ==
    (/\ sessionExists /\ ~isCompleted
     /\ Len(questions) > 0
     /\ issued.present)
        => issued.difficulty = C17_FedForward(questions, settings)

\* C18: an endless session never completes through submitAnswer: every
\* recorded answer leaves shouldContinue true, the session active and a next
\* question issued; it becomes completed only through endSession.
C18_EndlessOnlyEndsByCaller ==
    [][(sessionExists /\ sessionType = "endless") =>
          /\ AnswerRecorded =>
                /\ lastCall' = Call("submitAnswer", "ok", TRUE)
                /\ ~isCompleted'
                /\ issued'.present
          /\ (~isCompleted /\ isCompleted') => lastCall'.op = "endSession"]_vars

\* C18 witness: an endless session with sessionLimit 1 has recorded two
\* answers and is still active with a question issued.
C18_Witness ==
    /\ sessionExists /\ sessionType = "endless"
    /\ settings.sessionLimit = 1
    /\ Len(questions) = 2
    /\ ~isCompleted
    /\ issued.present
    /\ lastCall = Call("submitAnswer", "ok", TRUE)

\* The limit of a timed session in seconds: sessionLimit, or 300 when unset.
C19_LimitSeconds == IF settings.sessionLimit = NoLimit THEN 300 ELSE settings.sessionLimit

C20_SameCompletionTransition ==
    [][/\ (~isCompleted /\ isCompleted') =>
            /\ lastCall'.op \in {"submitAnswer", "endSession"}
            /\ lastCall'.result = "ok" /\ ~lastCall'.shouldContinue
            /\ endTime' = now
            /\ ~issued'.present
       /\ isCompleted' =>
            /\ endTime' # NoTime
            /\ duration' = (endTime' - startTime') \div 1000
            /\ duration' >= 0
            /\ performance' = calculatePerformance(questions')]_vars

\* C20 witness: endSession completed a session with one recorded answer,
\* 300 s after it started.
C20_Witness ==
    /\ isCompleted
    /\ lastCall = Call("endSession", "ok", FALSE)
    /\ Len(questions) = 1
    /\ endTime = now
    /\ duration = 300
    /\ performance = calculatePerformance(questions)

(***************************************************************************)
(* Operand ranges of the generated questions (SpecGen).                    *)
(***************************************************************************)
\* C21: in a subtraction num1 lies in [range.min, range.max]; on the default
\* path num2 lies in [range.min, num1] and the answer is >= 0; the answer is
\* negative only if the range allows negatives and difficulty >= 6, so every
\* subtraction below difficulty 6 has a non-negative answer.
C21_SubtractionNonNegative ==
    (generated.present /\ generated.question.operation = "subtraction") =>
        LET q == generated.question
            range == getDifficultyRange("subtraction", q.difficulty)
            num1 == q.operands[1]
            num2 == q.operands[2]
            redrawn == range.allowNegatives /\ q.difficulty >= 600 /\ RandomAbove(draws[3], 6)
        IN  /\ range.min <= num1 /\ num1 <= range.max
            /\ q.answer = 100 * (num1 - num2)
            /\ ~redrawn => (range.min <= num2 /\ num2 <= num1 /\ q.answer >= 0)
            /\ q.answer < 0 => (range.allowNegatives /\ q.difficulty >= 600)
            /\ q.difficulty < 600 => q.answer >= 0

\* C21 witness: a subtraction at difficulty 6 whose redrawn num2 exceeds num1.
C21_Witness ==
    /\ generated.present
    /\ generated.question.operation = "subtraction"
    /\ generated.question.difficulty = 600
    /\ generated.question.operands[2] > generated.question.operands[1]
    /\ generated.question.answer < 0

\* C22: in a multiplication at difficulty <= 4 both operands lie in
\* [1, min(12, range.max)]; above 4, num1 lies in [range.min, range.max] and
\* num2 in [range.min, min(range.max, num1 * 0.5)].
C22_MultiplicationOperandBounds ==
    (generated.present /\ generated.question.operation = "multiplication") =>
        LET q == generated.question
            range == getDifficultyRange("multiplication", q.difficulty)
            num1 == q.operands[1]
            num2 == q.operands[2]
            top == IF range.max < 12 THEN range.max ELSE 12
        IN  IF q.difficulty <= 400
            THEN /\ 1 <= num1 /\ num1 <= top
                 /\ 1 <= num2 /\ num2 <= top
            ELSE /\ range.min <= num1 /\ num1 <= range.max
                 /\ range.min <= num2
                 /\ num2 <= range.max /\ 2 * num2 <= num1

\* C23: in a division the divisor lies in [2, 12] for difficulty <= 3, [2, 25]
\* for difficulty in (3, 6] and [2, 50] above 6, the quotient is >= 1 and the
\* dividend shown as operands[0] lies in [range.min, range.max].
C23_DivisionOperandBounds ==
    (generated.present /\ generated.question.operation = "division") =>
        LET q == generated.question
            range == getDifficultyRange("division", q.difficulty)
            dividend == q.operands[1]
            divisor == q.operands[2]
            top == IF q.difficulty <= 300 THEN 12 ELSE IF q.difficulty <= 600 THEN 25 ELSE 50
        IN  /\ 2 <= divisor /\ divisor <= top
            /\ q.answer >= 100
            /\ range.min <= dividend /\ dividend <= range.max

(***************************************************************************)
(* The accuracy part of adjustDifficultyBasedOnPerformance (SpecAdjust).   *)
(***************************************************************************)
\* The accuracy adjustment C24 states, in hundredths.
C24_AccuracyPart(a, recentTotal) ==
    IF recentTotal >= 5 /\ a.num >= 90 * a.den THEN 30
    ELSE IF recentTotal >= 5 /\ a.num >= 80 * a.den THEN 10
    ELSE IF recentTotal >= 3 /\ a.num < 40 * a.den THEN -40
    ELSE IF recentTotal >= 3 /\ a.num < 60 * a.den THEN -20
    ELSE 0

\* C24: the accuracy part is +0.3 for recentTotal >= 5 and accuracy >= 90,
\* +0.1 for recentTotal >= 5 and accuracy >= 80, -0.2 for recentTotal >= 3
\* and accuracy < 60, and -0.4 for recentTotal >= 3 and accuracy < 40.
\* Compared where the speed part is 0 (mean time from 2 s to 10 s) and the
\* clamp does not act.
C24_AccuracyAdjustment ==
    (/\ result.present
     /\ args.low.present
     /\ args.low.averageTime.num >= 2000 * args.low.averageTime.den
     /\ args.low.averageTime.num <= 10000 * args.low.averageTime.den
     /\ args.baseDifficulty >= 140 /\ args.baseDifficulty <= 970)
        => result.low = RoundToTenth(args.baseDifficulty
                            + C24_AccuracyPart(args.low.accuracy, args.low.recentTotal))

(***************************************************************************)
(* What submitAnswer records as isCorrect (Spec).                          *)
(***************************************************************************)
\* C25: the isCorrect recorded for an answer is true only if the user's
\* answer matches the answer of the question the server issued; the answer
\* field the client sends back in questionData does not decide it.
C25_CorrectOnlyAgainstServerAnswer ==
    [][AnswerRecorded =>
          LET recorded == questions'[Len(questions')]
          IN  recorded.isCorrect =>
                 /\ issued.present
                 /\ Abs(recorded.userAnswer - issued.answer) <= DefaultTolerance]_vars

(***************************************************************************)
(* The streak counters of a user (SpecUser).                               *)
(***************************************************************************)
\* C28: from currentStreak = longestStreak = 0, after any sequence of
\* updateStats calls longestStreak >= currentStreak >= 0, and longestStreak
\* never decreases.
C28_LongestBoundsCurrent ==
    [][/\ stats'.longestStreak >= stats'.currentStreak
       /\ stats'.currentStreak >= 0
       /\ stats'.longestStreak >= stats.longestStreak]_vars

\* C28 witness: a streak of 3 was broken and a new one has begun.
C28_Witness ==
    /\ stats.totalSessions = 5
    /\ stats.longestStreak = 3
    /\ stats.currentStreak = 1

(***************************************************************************)
(* The experience a session reports and the experience it credits (Spec).  *)
(***************************************************************************)
\* C29: when a session completes, performance.experienceEarned of its summary
\* equals the amount updateStats adds to the user's stats.experience for it.
C29_ReportedEqualsCredited ==
    [][(~isCompleted /\ isCompleted') =>
          performance'.experienceEarned = stats'.experience - stats.experience]_vars

(***************************************************************************)
(* SpecEcho: sessions whose client sends back the difficulty of the        *)
(* question it was issued, with correct or wrong, fast or slow answers.    *)
(***************************************************************************)
EchoBodies ==
    { Body("endless", d, BodyNull, a, << "addition" >>) :
        d \in {100, 155, 500, 1000}, a \in BOOLEAN }

NextEcho ==
    \/ \E body \in EchoBodies : StartSession(body, 0, NoDraws)
    \/ \E a \in {0, 100}, rt \in ResponseTimes :
         \E qd \in ClientQuestionData({issued.answer}, {ValidOperands}) :
            /\ Len(questions) < MaxEchoQuestions
            /\ SubmitAnswer(issued.answer + a, rt, qd, 0, NoDraws)

SpecEcho == Init /\ [][NextEcho]_vars

\* C30: with initialDifficulty in [1, 10] and a client that echoes the issued
\* difficulty, every question issued, the first and each next one, has a
\* difficulty within [1, 10], and each next one a multiple of 0.1.
C30_IssuedDifficultyInBounds ==
    issued.present =>
        /\ settings.initialDifficulty >= 100 /\ settings.initialDifficulty <= 1000
        /\ issued.difficulty >= 100 /\ issued.difficulty <= 1000
        /\ Len(questions) > 0 => issued.difficulty % 10 = 0

\* C30 witness: an adaptive session started at 10 has had three fast correct
\* answers; the question issued is held at 10 by the clamp.
C30_Witness ==
    /\ issued.present
    /\ settings.adaptiveDifficulty
    /\ settings.initialDifficulty = 1000
    /\ Len(questions) = 3
    /\ \A i \in 1..3 : questions[i].isCorrect /\ questions[i].responseTime = 1500
    /\ issued.difficulty = 1000

(***************************************************************************)
(* SpecRace: two handler calls on one question_based session, interleaved  *)
(* at their awaits.                                                        *)
(***************************************************************************)
RaceBodies ==
    { Body("question_based", 100, l, FALSE, << "addition" >>) : l \in {1, 2} }

RaceInputs ==
    { [answer |-> a, responseTime |-> 1500, questionData |-> qd] :
        a \in UserAnswers, qd \in ClientQuestionData({300}, {ValidOperands}) }

NextRace ==
    \/ \E body \in RaceBodies : StartSession(body, 0, NoDraws)
    \/ \E r \in RequestIds, in \in RaceInputs : LoadSession(r, "submitAnswer", in)
    \/ \E r \in RequestIds : LoadSession(r, "endSession", NoInput)
    \/ \E r \in RequestIds : SubmitSave(r)
    \/ \E r \in RequestIds : EndSave(r)
    \/ \E r \in RequestIds : LoadUser(r)
    \/ \E r \in RequestIds : SaveUser(r)
    \/ \E t \in ClockValues : Tick(t)

SpecRace == Init /\ [][NextRace]_vars

\* C26: whatever the interleaving of two requests on the same session, the
\* user's progression is updated at most once for that session: the user,
\* who has this one session, is credited at most one session.
C26_ProgressionUpdatedAtMostOnce ==
    stats.totalSessions <= 1

\* C27: a question_based session with sessionLimit L never stores more than
\* L questions, interleaved submitAnswer requests included.
C27_StoredQuestionsWithinLimit ==
    (sessionExists /\ sessionType = "question_based") =>
        Len(questions) <= (IF settings.sessionLimit = NoLimit THEN 10 ELSE settings.sessionLimit)

=============================================================================
